---- MODULE Spec2Model ----
(***************************************************************************)
(* Model of the parking scraper's polling loop (src/src/main.rs).          *)
(*                                                                         *)
(* run_scraper is one infinite loop with four await points: the interval   *)
(* tick (line 107), the sink write of the cached-data branch (line 127),   *)
(* the upstream fetch (line 137) and the sink write of the fetch branch    *)
(* (line 166).  pc records at which await the loop is suspended; every     *)
(* action runs the code from one await to the next.  fetched, write_result,*)
(* fetches, writes, using_cache and cache_at_tick record what the current  *)
(* cycle has done; a tick resets them.  seen_positive and                  *)
(* prev_cached_points record what earlier cycles read and wrote.           *)
(***************************************************************************)
EXTENDS Integers, Sequences, FiniteSets, TLC

\* ------------------------------------------------------------------ bounds
\* Longest msparkingData array an upstream response carries in the model.
MaxLen == 2
\* Longest msparkingData array a response carries under LiveSpec.
MaxLiveLen == 1

\* ------------------------------------------------------------ input domains
\* Area codes: the two the location table names, and one it does not.
Areas == {2, 12, 7}
\* areaFreeSpaceNum is a signed integer: negative, zero and positive values.
FreeValues == {-1, 0, 3, 5}
AreaData == [area_code : Areas, area_free_space_num : FreeValues]
\* Values Utc::now().timestamp_nanos_opt() can return at a point creation.
Stamps == {0, 1}
\* Utc::now() as minutes since UTC midnight.
AllInstants == 0..(24 * 60 - 1)
\* The instants the scheduler's ticks sample: 23:55 and 00:20 Shanghai time
\* (UTC 15:55 and 16:20), one inside the window and one outside it.
TickInstants == {15 * 60 + 55, 16 * 60 + 20}

RECURSIVE SeqsUpTo(_, _)
SeqsUpTo(S, n) ==
    IF n = 0 THEN {<<>>}
    ELSE LET shorter == SeqsUpTo(S, n - 1)
         IN  shorter \cup {Append(s, x) : s \in {t \in shorter : Len(t) = n - 1}, x \in S}

\* Every body the upstream can answer with that decodes as an ApiResponse.
ApiResponse == [success : BOOLEAN, msparking_data : SeqsUpTo(AreaData, MaxLen)]

VARIABLES
    pc,            \* await point the loop is suspended at
    cached_data,   \* HashMap<i32, AreaData>
    hour,          \* shanghai_time.hour() of the last window evaluation
    minute,        \* shanghai_time.minute() of the last window evaluation
    using_cache,   \* result of is_in_maintenance_window() in this cycle
    fetched,       \* result of fetch_parking_data in this cycle
    data_points,   \* the batch handed to client.write, until the write returns
    write_result,  \* result of client.write in this cycle
    fetches,       \* fetches issued in this cycle
    writes,        \* writes dispatched in this cycle
    cache_at_tick, \* cached_data as it was when this cycle's tick fired
    seen_positive, \* per area code, the last positive reading the loop of
                   \* lines 149-153 has gone through since the process began
    prev_cached_points  \* the batch the cached-data branch wrote in the cycle
                        \* before this one; empty if that cycle fetched

vars == <<pc, cached_data, hour, minute, using_cache, fetched, data_points,
          write_result, fetches, writes, cache_at_tick, seen_positive,
          prev_cached_points>>

\* ------------------------------------------------------------- pure helpers
\* with_timezone(&Shanghai): Asia/Shanghai is UTC+8 with no daylight saving.
shanghai_time(utc) == (utc + 8 * 60) % (24 * 60)
Hour(local) == local \div 60
Minute(local) == local % 60

\* The window with its upper boundary written m <= 20.
window_closing_late(h, m) ==
    (h = 23 /\ m >= 50) \/ (h = 0 /\ m <= 20)

is_in_maintenance_window(h, m) ==
    (h = 23 /\ m >= 50) \/ (h = 0 /\ m < 20)

Digit(d) == CASE d = 0 -> "0" [] d = 1 -> "1" [] d = 2 -> "2" [] d = 3 -> "3"
              [] d = 4 -> "4" [] d = 5 -> "5" [] d = 6 -> "6" [] d = 7 -> "7"
              [] d = 8 -> "8" [] d = 9 -> "9"

RECURSIVE Digits(_)
Digits(n) == IF n < 10 THEN <<Digit(n)>> ELSE Append(Digits(n \div 10), Digit(n % 10))

\* i32::to_string: decimal digits, most significant first, "-" before a
\* negative number.  The string is a sequence of one-character strings.
to_string(n) == IF n < 0 THEN <<"-">> \o Digits(0 - n) ELSE Digits(n)

\* The table of lines 86-90 without its arm for area code 2.
location_without_two(area_code) ==
    CASE area_code = 12 -> "SIP-B25-B26"
      [] OTHER -> "Unknown"

location(area_code) ==
    CASE area_code = 12 -> "SIP-B25-B26"
      [] area_code = 2 -> "ZHONGMENG"
      [] OTHER -> "Unknown"

\* create_data_point reads the wall clock itself (line 82); now is the value
\* that read returns.
create_data_point(area, now) ==
    [measurement |-> "parking_spaces",
     area_code   |-> to_string(area.area_code),
     location    |-> location(area.area_code),
     free_spaces |-> area.area_free_space_num,
     timestamp   |-> now]

\* HashMap::entry(k).or_insert(v): add the key, keep the value of a key
\* already present.
insert_if_absent(map, k, v) ==
    [x \in DOMAIN map \cup {k} |-> IF x \in DOMAIN map THEN map[x] ELSE v]

\* A cache of one slot: the entry stored replaces all that was there.
insert_replacing_all(map, k, v) == [x \in {k} |-> v]

\* HashMap::insert: add the key or replace its value.
insert(map, k, v) == [x \in DOMAIN map \cup {k} |-> IF x = k THEN v ELSE map[x]]

\* The loop body with the comparison of line 150 written >= 0.
upsert_if_nonnegative(cache, area) ==
    IF area.area_free_space_num >= 0
    THEN insert(cache, area.area_code, area)
    ELSE cache

\* The loop body following the upstream down as well as up: a reading that
\* is not positive removes the entry of its area.
upsert_or_evict(cache, area) ==
    IF area.area_free_space_num > 0
    THEN insert(cache, area.area_code, area)
    ELSE [x \in DOMAIN cache \ {area.area_code} |-> cache[x]]

\* Body of the loop of lines 149-153 for one reading.
upsert_if_positive(cache, area) ==
    IF area.area_free_space_num > 0
    THEN insert(cache, area.area_code, area)
    ELSE cache

\* Lines 149-153: the readings are applied in response order.
RECURSIVE update_cache(_, _)
update_cache(cache, readings) ==
    IF readings = <<>> THEN cache
    ELSE update_cache(upsert_if_positive(cache, Head(readings)), Tail(readings))

\* An iteration that may yield an entry twice and skip another.
ValueOrdersRepeating(map) ==
    LET n == Cardinality(DOMAIN map)
    IN  {[i \in 1..n |-> map[o[i]]] : o \in [1..n -> DOMAIN map]}

\* All orders in which HashMap::values() can yield the entries of map.
ValueOrders(map) ==
    LET n == Cardinality(DOMAIN map)
        keyOrders == {o \in [1..n -> DOMAIN map] : \A i, j \in 1..n : i # j => o[i] # o[j]}
    IN  {[i \in 1..n |-> map[o[i]]] : o \in keyOrders}

\* The clock reads of one batch: one per point, never going backwards.
ClockReads(n) == {st \in [1..n -> Stamps] : \A i, j \in 1..n : i <= j => st[i] <= st[j]}

\* The mapping of line 155 restricted to the readings the cache takes.
MapPositivePoints(readings, stamps) ==
    LET kept == SelectSeq(readings, LAMBDA r : r.area_free_space_num > 0)
    IN  [i \in 1..Len(kept) |-> create_data_point(kept[i], stamps[i])]

\* .map(create_data_point).collect(): one point per reading, in order, each
\* stamped with its own clock read.
MapPoints(readings, stamps) ==
    [i \in 1..Len(readings) |-> create_data_point(readings[i], stamps[i])]

\* Line 139 without the check of the success flag.
rejected_never(resp) == FALSE

\* Line 139: the upstream reports an unsuccessful response.
rejected(resp) == ~resp.success

\* Line 144 without the check for an empty array.
no_data_never(resp) == FALSE

\* Line 144: the response carries no reading.
no_data(resp) == resp.msparking_data = <<>>

\* The record of the readings gone through: seen extended by readings, each
\* area code keeping the positive reading that came last.
LastPositive(seen, readings) ==
    LET at(a) == {i \in 1..Len(readings) :
                     readings[i].area_code = a /\ readings[i].area_free_space_num > 0}
        last(a) == CHOOSE i \in at(a) : \A j \in at(a) : j <= i
        codes == {readings[i].area_code : i \in 1..Len(readings)}
    IN  [a \in DOMAIN seen \cup {b \in codes : at(b) # {}} |->
            IF at(a) = {} THEN seen[a] ELSE readings[last(a)]]

NoFetch == [status |-> "none", success |-> FALSE, msparking_data |-> <<>>]
FetchError(kind) == [status |-> kind, success |-> FALSE, msparking_data |-> <<>>]
FetchOk(resp) == [status |-> "ok", success |-> resp.success,
                  msparking_data |-> resp.msparking_data]
EmptyMap == [x \in {} |-> x]

\* ------------------------------------------------------------------- state
Init ==
    /\ pc = "waiting"
    /\ cached_data = EmptyMap
    /\ hour = 0
    /\ minute = 0
    /\ using_cache = FALSE
    /\ fetched = NoFetch
    /\ data_points = <<>>
    /\ write_result = "none"
    /\ fetches = 0
    /\ writes = 0
    /\ cache_at_tick = EmptyMap
    /\ seen_positive = EmptyMap
    /\ prev_cached_points = <<>>

\* Lines 107-137: the tick fires, the window is evaluated at an instant the
\* clock can show, and the loop either dispatches the write of the cached
\* readings or issues the fetch.
TickAt(instants) ==
    /\ pc = "waiting"
    /\ \E utc \in instants :
         LET local == shanghai_time(utc)
             window == is_in_maintenance_window(Hour(local), Minute(local))
         IN  /\ hour' = Hour(local)
             /\ minute' = Minute(local)
             /\ using_cache' = window
             /\ cache_at_tick' = cached_data
             /\ fetched' = NoFetch
             /\ IF window /\ DOMAIN cached_data # {}
                THEN /\ pc' = "writing_cached"
                     /\ writes' = 1
                     /\ fetches' = 0
                     /\ write_result' = "pending"
                     /\ \E order \in ValueOrders(cached_data) :
                          \E stamps \in ClockReads(Len(order)) :
                             data_points' = MapPoints(order, stamps)
                     /\ UNCHANGED prev_cached_points
                ELSE /\ pc' = "fetching"
                     /\ writes' = 0
                     /\ fetches' = 1
                     /\ write_result' = "none"
                     /\ data_points' = <<>>
                     /\ prev_cached_points' = <<>>
    /\ UNCHANGED <<cached_data, seen_positive>>

\* The tick without the is_empty check of line 114: inside the window the
\* cached readings are written even when there are none.
TickServesEmptyCache ==
    /\ pc = "waiting"
    /\ \E utc \in TickInstants :
         LET local == shanghai_time(utc)
             window == is_in_maintenance_window(Hour(local), Minute(local))
         IN  /\ hour' = Hour(local)
             /\ minute' = Minute(local)
             /\ using_cache' = window
             /\ cache_at_tick' = cached_data
             /\ fetched' = NoFetch
             /\ IF window
                THEN /\ pc' = "writing_cached"
                     /\ writes' = 1
                     /\ fetches' = 0
                     /\ write_result' = "pending"
                     /\ \E order \in ValueOrders(cached_data) :
                          \E stamps \in ClockReads(Len(order)) :
                             data_points' = MapPoints(order, stamps)
                     /\ UNCHANGED prev_cached_points
                ELSE /\ pc' = "fetching"
                     /\ writes' = 0
                     /\ fetches' = 1
                     /\ write_result' = "none"
                     /\ data_points' = <<>>
                     /\ prev_cached_points' = <<>>
    /\ UNCHANGED <<cached_data, seen_positive>>

\* The tick starting a cycle of its own whatever the loop is doing, as a
\* task spawned per tick would.
TickWhileBusy ==
    /\ pc \in {"waiting", "fetching", "writing", "writing_cached"}
    /\ \E utc \in TickInstants :
         LET local == shanghai_time(utc)
             window == is_in_maintenance_window(Hour(local), Minute(local))
         IN  /\ hour' = Hour(local)
             /\ minute' = Minute(local)
             /\ using_cache' = window
             /\ cache_at_tick' = cached_data
             /\ fetched' = NoFetch
             /\ IF window /\ DOMAIN cached_data # {}
                THEN /\ pc' = "writing_cached"
                     /\ writes' = 1
                     /\ fetches' = 0
                     /\ write_result' = "pending"
                     /\ \E order \in ValueOrders(cached_data) :
                          \E stamps \in ClockReads(Len(order)) :
                             data_points' = MapPoints(order, stamps)
                     /\ UNCHANGED prev_cached_points
                ELSE /\ pc' = "fetching"
                     /\ writes' = 0
                     /\ fetches' = 1
                     /\ write_result' = "none"
                     /\ data_points' = <<>>
                     /\ prev_cached_points' = <<>>
    /\ UNCHANGED <<cached_data, seen_positive>>

Tick == TickAt(TickInstants)

\* The cached-data branch without the continue of line 133: the loop goes on
\* to the fetch of line 137.
WriteCachedThenFetch ==
    /\ pc = "writing_cached"
    /\ \E r \in {"ok", "err"} : write_result' = r
    /\ prev_cached_points' = data_points
    /\ data_points' = <<>>
    /\ fetches' = fetches + 1
    /\ pc' = "fetching"
    /\ UNCHANGED <<cached_data, hour, minute, using_cache, fetched,
                   writes, cache_at_tick, seen_positive>>

\* The cached write's error arm (line 130) dropping the cached readings.
WriteCachedDoneEvicts ==
    /\ pc = "writing_cached"
    /\ \E r \in {"ok", "err"} :
         /\ write_result' = r
         /\ cached_data' = IF r = "err" THEN EmptyMap ELSE cached_data
    /\ prev_cached_points' = data_points
    /\ data_points' = <<>>
    /\ pc' = "waiting"
    /\ UNCHANGED <<hour, minute, using_cache, fetched,
                   fetches, writes, cache_at_tick, seen_positive>>

\* Lines 127-133: the write of the cached readings returns; either result is
\* only logged and the loop continues with the next tick.
WriteCachedDone ==
    /\ pc = "writing_cached"
    /\ \E r \in {"ok", "err"} : write_result' = r
    /\ prev_cached_points' = data_points
    /\ data_points' = <<>>
    /\ pc' = "waiting"
    /\ UNCHANGED <<cached_data, hour, minute, using_cache, fetched,
                   fetches, writes, cache_at_tick, seen_positive>>

\* The error arm of line 172 dropping the cached readings.
FetchFailsClearsCache ==
    /\ pc = "fetching"
    /\ \E kind \in {"transport", "decode"} : fetched' = FetchError(kind)
    /\ cached_data' = EmptyMap
    /\ pc' = "waiting"
    /\ UNCHANGED <<hour, minute, using_cache, data_points,
                   write_result, fetches, writes, cache_at_tick, seen_positive,
                   prev_cached_points>>

\* The fetch error propagated with ? instead of matched: run_scraper returns
\* and the process ends.
FetchFailsEndsLoop ==
    /\ pc = "fetching"
    /\ \E kind \in {"transport", "decode"} : fetched' = FetchError(kind)
    /\ pc' = "terminated"
    /\ UNCHANGED <<cached_data, hour, minute, using_cache, data_points,
                   write_result, fetches, writes, cache_at_tick, seen_positive,
                   prev_cached_points>>

\* The fetch error answered by another request in the same cycle.
FetchFailsRetries ==
    /\ pc = "fetching"
    /\ fetches <= 1
    /\ \E kind \in {"transport", "decode"} : fetched' = FetchError(kind)
    /\ fetches' = fetches + 1
    /\ pc' = "fetching"
    /\ UNCHANGED <<cached_data, hour, minute, using_cache, data_points,
                   write_result, writes, cache_at_tick, seen_positive,
                   prev_cached_points>>

\* Lines 61-71 and 172-174: the request or the decoding fails.
FetchFails ==
    /\ pc = "fetching"
    /\ \E kind \in {"transport", "decode"} : fetched' = FetchError(kind)
    /\ pc' = "waiting"
    /\ UNCHANGED <<cached_data, hour, minute, using_cache, data_points,
                   write_result, fetches, writes, cache_at_tick, seen_positive,
                   prev_cached_points>>

\* Lines 137-166: the fetch returns a decoded response, one of responses.
FetchReturnsFrom(responses) ==
    /\ pc = "fetching"
    /\ \E resp \in responses :
         /\ fetched' = FetchOk(resp)
         /\ IF rejected(resp) \/ no_data(resp)
            THEN /\ pc' = "waiting"
                 /\ UNCHANGED <<cached_data, data_points, write_result, writes,
                                seen_positive>>
            ELSE /\ cached_data' = update_cache(cached_data, resp.msparking_data)
                 /\ seen_positive' = LastPositive(seen_positive, resp.msparking_data)
                 /\ \E stamps \in ClockReads(Len(resp.msparking_data)) :
                      data_points' = MapPoints(resp.msparking_data, stamps)
                 /\ writes' = writes + 1
                 /\ write_result' = "pending"
                 /\ pc' = "writing"
    /\ UNCHANGED <<hour, minute, using_cache, fetches, cache_at_tick,
                   prev_cached_points>>

FetchReturns == FetchReturnsFrom(ApiResponse)

\* The same step with the response drawn from those of at most MaxLiveLen
\* readings.
FetchReturnsShort ==
    FetchReturnsFrom({resp \in ApiResponse : Len(resp.msparking_data) <= MaxLiveLen})

\* The write error arm of line 169 restoring the cache of before the tick.
WriteDoneRollsBack ==
    /\ pc = "writing"
    /\ \E r \in {"ok", "err"} :
         /\ write_result' = r
         /\ cached_data' = IF r = "err" THEN cache_at_tick ELSE cached_data
    /\ data_points' = <<>>
    /\ pc' = "waiting"
    /\ UNCHANGED <<hour, minute, using_cache, fetched,
                   fetches, writes, cache_at_tick, seen_positive,
                   prev_cached_points>>

\* Lines 166-170: the write of the fetched readings returns; either result
\* is only logged and the loop continues with the next tick.
WriteDone ==
    /\ pc = "writing"
    /\ \E r \in {"ok", "err"} : write_result' = r
    /\ data_points' = <<>>
    /\ pc' = "waiting"
    /\ UNCHANGED <<cached_data, hour, minute, using_cache, fetched,
                   fetches, writes, cache_at_tick, seen_positive,
                   prev_cached_points>>

Next == Tick \/ WriteCachedDone \/ FetchFails \/ FetchReturns \/ WriteDone

Spec == Init /\ [][Next]_vars

\* The loop under the fairness its scheduling gives: the interval timer always
\* fires again (tokio::time::interval, line 107).  Nothing is assumed of the
\* fetch and the write, which the code awaits without a timeout.
LiveNext == Tick \/ WriteCachedDone \/ FetchFails \/ FetchReturnsShort \/ WriteDone
LiveSpec == Init /\ [][LiveNext]_vars /\ WF_vars(Tick)

\* ------------------------------------------------------------------ main
\* Values api.scraping_interval_secs can deserialize to (u64).
IntervalSecs == {0, 1, 60}

\* The process at the start of main, before load_config (line 183).
MainInit ==
    /\ pc = "load_config"
    /\ cached_data = EmptyMap
    /\ hour = 0
    /\ minute = 0
    /\ using_cache = FALSE
    /\ fetched = NoFetch
    /\ data_points = <<>>
    /\ write_result = "none"
    /\ fetches = 0
    /\ writes = 0
    /\ cache_at_tick = EmptyMap
    /\ seen_positive = EmptyMap
    /\ prev_cached_points = <<>>

\* The configuration checked again while the scheduler runs.
ConfigFailsAnytime ==
    /\ pc \in {"load_config", "waiting"}
    /\ pc' = "failed"
    /\ UNCHANGED <<cached_data, hour, minute, using_cache, fetched, data_points,
                   write_result, fetches, writes, cache_at_tick, seen_positive,
                   prev_cached_points>>

\* Lines 51-59 and 183: the file cannot be read or does not deserialize;
\* main returns the error and the process exits.
ConfigFails ==
    /\ pc = "load_config"
    /\ pc' = "failed"
    /\ UNCHANGED <<cached_data, hour, minute, using_cache, fetched, data_points,
                   write_result, fetches, writes, cache_at_tick, seen_positive,
                   prev_cached_points>>

\* Lines 183-104: the configuration loads and run_scraper sets up the client,
\* the interval and the empty cache.  time::interval panics on a period of
\* zero (line 100), which ends the process as well.
ConfigLoads ==
    /\ pc = "load_config"
    /\ \E secs \in IntervalSecs :
         pc' = IF secs = 0 THEN "panicked" ELSE "waiting"
    /\ UNCHANGED <<cached_data, hour, minute, using_cache, fetched, data_points,
                   write_result, fetches, writes, cache_at_tick, seen_positive,
                   prev_cached_points>>

MainNext == ConfigFails \/ ConfigLoads \/ Next
MainSpec == MainInit /\ [][MainNext]_vars

\* Area codes of every shape an i32 prints as: negative, zero, one digit,
\* several digits, the largest; and the two codes the location table names.
WideAreas == {-3, 0, 2, 7, 12, 13, 120, 2147483647}
WideResponses ==
    {[success |-> TRUE,
      msparking_data |-> <<[area_code |-> a, area_free_space_num |-> f]>>] :
        a \in WideAreas, f \in FreeValues}

\* The first cycle of a run on a response of one reading with any of the
\* area codes of WideAreas: the harness under which the point mapping is
\* checked on more area codes than the loop is run on.
FetchReturnsWide == FetchReturnsFrom(WideResponses)
MapperNext == Tick \/ FetchReturnsWide
MapperSpec == Init /\ [][MapperNext]_vars

\* The first tick of a run, at every instant of the day: the harness under
\* which the window predicate is checked on all of its inputs.
FirstTick == TickAt(AllInstants)
WindowSpec == Init /\ [][FirstTick]_vars

\* ------------------------------------------------------- cycle vocabulary
\* A cycle has started: every tick issues a fetch or dispatches a write.
Started == fetches + writes > 0
FetchFailed == fetched.status \in {"transport", "decode"}
Rejected == fetched.status = "ok" /\ ~fetched.success
EmptyPayload == fetched.status = "ok" /\ fetched.success /\ fetched.msparking_data = <<>>
Validated == fetched.status = "ok" /\ fetched.success /\ fetched.msparking_data # <<>>
Positive(area) == area.area_free_space_num > 0
SameEntry(before, after, a) ==
    /\ (a \in DOMAIN after) = (a \in DOMAIN before)
    /\ a \in DOMAIN after => after[a] = before[a]
Largest(S) == CHOOSE i \in S : \A j \in S : j <= i
\* Positions of the positive readings of area code a in readings.
PositiveAt(readings, a) ==
    {i \in 1..Len(readings) : readings[i].area_code = a /\ Positive(readings[i])}
\* after is before with, for every area code, its entry replaced by the last
\* positive reading of that area code, and left alone where there is none.
Refreshed(before, readings, after) ==
    \A a \in Areas :
        IF PositiveAt(readings, a) = {}
        THEN SameEntry(before, after, a)
        ELSE a \in DOMAIN after /\ after[a] = readings[Largest(PositiveAt(readings, a))]
\* points carries one point per reading of readings, in order, with the
\* reading's area code and free_spaces value.
PointsOf(points, readings) ==
    /\ Len(points) = Len(readings)
    /\ \A i \in 1..Len(readings) :
          /\ points[i].area_code = to_string(readings[i].area_code)
          /\ points[i].free_spaces = readings[i].area_free_space_num

\* ------------------------------------------------------------------ claims
\* C1: every entry of the cache holds a reading with free_spaces > 0; after a
\* validated fetch an area code with no positive reading in the response has
\* the entry it had before the tick (or still none), and an area code with a
\* positive reading holds the last such reading of the response.
C1_CacheHoldsPositiveReadings ==
    /\ \A a \in DOMAIN cached_data : Positive(cached_data[a])
    /\ Validated => Refreshed(cache_at_tick, fetched.msparking_data, cached_data)

\* A validated response replaced the entry of area 12 and its non-positive
\* reading of area 2 left the cached entry of area 2 alone.
C1_Witness ==
    /\ Validated
    /\ fetched.msparking_data = <<[area_code |-> 12, area_free_space_num |-> 5],
                                  [area_code |-> 2, area_free_space_num |-> 0]>>
    /\ DOMAIN cache_at_tick = {2, 12}
    /\ cache_at_tick[12].area_free_space_num = 3
    /\ cached_data[12].area_free_space_num = 5
    /\ cached_data[2].area_free_space_num = 3

\* C2: a tick inside the maintenance window with a non-empty cache issues no
\* fetch and dispatches exactly one write, whose points are one per cached
\* entry with that entry's area code and free_spaces; the cycle then ends
\* with the loop waiting for the next tick.
C2_WindowServesCache ==
    (Started /\ using_cache /\ DOMAIN cache_at_tick # {}) =>
        /\ fetches = 0 /\ fetched = NoFetch
        /\ writes = 1
        /\ cached_data = cache_at_tick
        /\ pc \in {"writing_cached", "waiting"}
        /\ pc = "waiting" => write_result \in {"ok", "err"}
        /\ pc = "writing_cached" =>
              /\ Len(data_points) = Cardinality(DOMAIN cached_data)
              /\ \A a \in DOMAIN cached_data :
                    \E i \in 1..Len(data_points) :
                        /\ data_points[i].area_code = to_string(a)
                        /\ data_points[i].free_spaces = cached_data[a].area_free_space_num

\* Scenario B: 23:55 local, the cache holds 12 -> 5, one point is in flight.
C2_Witness ==
    /\ pc = "writing_cached"
    /\ hour = 23 /\ minute = 55
    /\ DOMAIN cached_data = {12}
    /\ cached_data[12].area_free_space_num = 5
    /\ Len(data_points) = 1
    /\ data_points[1].free_spaces = 5
    /\ fetches = 0

\* C3: a validated response with at least one reading is written as one
\* point per returned reading, non-positive readings included, while the
\* cache takes only the positive readings.
C3_AllReadingsWritten ==
    Validated =>
        /\ writes = 1
        /\ pc \in {"writing", "waiting"}
        /\ pc = "writing" => PointsOf(data_points, fetched.msparking_data)
        /\ \A a \in DOMAIN cached_data :
              \/ a \in DOMAIN cache_at_tick /\ cached_data[a] = cache_at_tick[a]
              \/ \E i \in PositiveAt(fetched.msparking_data, a) :
                    cached_data[a] = fetched.msparking_data[i]
        /\ \A i \in 1..Len(fetched.msparking_data) :
              Positive(fetched.msparking_data[i]) =>
                  fetched.msparking_data[i].area_code \in DOMAIN cached_data

\* Scenario A: readings {12,5},{2,0} on an empty cache give two points and a
\* cache holding only 12 -> 5.
C3_Witness ==
    /\ pc = "writing"
    /\ cache_at_tick = EmptyMap
    /\ fetched.msparking_data = <<[area_code |-> 12, area_free_space_num |-> 5],
                                  [area_code |-> 2, area_free_space_num |-> 0]>>
    /\ Len(data_points) = 2
    /\ data_points[2].free_spaces = 0
    /\ DOMAIN cached_data = {12}
    /\ cached_data[12].area_free_space_num = 5

\* C4: a cycle whose fetch fails (transport or decode error) dispatches no
\* write and leaves the cache as it was before the tick.
C4_FetchFailureSkipsCycle ==
    FetchFailed =>
        /\ pc = "waiting"
        /\ fetches = 1
        /\ writes = 0 /\ write_result = "none" /\ data_points = <<>>
        /\ cached_data = cache_at_tick

\* A decode error in a cycle that started with a non-empty cache.
C4_Witness ==
    /\ fetched.status = "decode"
    /\ pc = "waiting"
    /\ DOMAIN cached_data = {2, 12}

\* C5: a decoded response with success == false writes nothing and leaves
\* the cache unchanged, whatever readings it carries.
C5_RejectedResponseIgnored ==
    Rejected =>
        /\ pc = "waiting"
        /\ writes = 0 /\ write_result = "none" /\ data_points = <<>>
        /\ cached_data = cache_at_tick

\* A rejected response carrying a positive reading for an area not cached.
C5_Witness ==
    /\ Rejected
    /\ fetched.msparking_data = <<[area_code |-> 12, area_free_space_num |-> 5]>>
    /\ DOMAIN cached_data = {2}

\* C6: a response with success == true and no reading dispatches no write
\* and leaves the cache unchanged: nothing is cleared, nothing is modified.
C6_EmptyPayloadIgnored ==
    EmptyPayload =>
        /\ pc = "waiting"
        /\ writes = 0 /\ write_result = "none" /\ data_points = <<>>
        /\ cached_data = cache_at_tick

\* An empty payload arrives while the cache holds two areas.
C6_Witness ==
    /\ EmptyPayload
    /\ pc = "waiting"
    /\ DOMAIN cached_data = {2, 12}

\* C7: after a validated fetch whose write failed the cache holds the positive
\* readings of the response, as it does after a write that succeeded.
C7_WriteFailureKeepsCache ==
    (Validated /\ write_result \in {"ok", "err"}) =>
        /\ pc = "waiting"
        /\ Refreshed(cache_at_tick, fetched.msparking_data, cached_data)

\* The write of a response that changed the cache has failed.
C7_Witness ==
    /\ Validated
    /\ write_result = "err"
    /\ pc = "waiting"
    /\ DOMAIN cache_at_tick = {12}
    /\ cache_at_tick[12].area_free_space_num = 3
    /\ DOMAIN cached_data = {2, 12}
    /\ cached_data[12].area_free_space_num = 5

\* Every outcome that ends a cycle.
CycleEnded ==
    \/ FetchFailed
    \/ Rejected
    \/ EmptyPayload
    \/ write_result \in {"ok", "err"}

\* A tick starts a cycle from the cache and the clock alone.
FreshCycle ==
    /\ fetched' = NoFetch
    /\ fetches' + writes' = 1
    /\ cached_data' = cached_data
    /\ (pc' = "writing_cached") = (using_cache' /\ DOMAIN cached_data # {})
    /\ (pc' = "fetching") = ~(using_cache' /\ DOMAIN cached_data # {})

\* C8: every cycle outcome (fetch error, rejected response, empty payload,
\* write result of either branch) leaves the loop waiting for the next tick;
\* no state is terminal; the next tick eventually starts a cycle, and that
\* cycle starts from the cache and the clock alone, whatever came before.
C8_LoopSurvivesFailures ==
    /\ [](CycleEnded => pc = "waiting")
    /\ [](pc \in {"waiting", "fetching", "writing", "writing_cached"} /\ ENABLED LiveNext)
    /\ [][pc = "waiting" => FreshCycle]_vars
    /\ (pc = "waiting" ~> pc \in {"fetching", "writing_cached"})

\* The write of the cached-data branch has failed and the loop is waiting.
C8_Witness ==
    /\ pc = "waiting"
    /\ write_result = "err"
    /\ fetches = 0
    /\ DOMAIN cached_data # {}

\* C9: inside the window with an empty cache the cycle fetches, and handles
\* the result as any fetch cycle does: a failed, rejected or empty fetch
\* writes nothing and caches nothing; a validated response refreshes the
\* cache from its positive readings and is written whole.
C9_EmptyCacheFallsThrough ==
    (Started /\ using_cache /\ DOMAIN cache_at_tick = {}) =>
        /\ fetches = 1
        /\ pc \in {"fetching", "writing", "waiting"}
        /\ pc = "fetching" => fetched = NoFetch /\ writes = 0
        /\ pc # "fetching" => fetched.status # "none"
        /\ (FetchFailed \/ Rejected \/ EmptyPayload) =>
              pc = "waiting" /\ writes = 0 /\ cached_data = EmptyMap
        /\ Validated =>
              /\ writes = 1
              /\ Refreshed(EmptyMap, fetched.msparking_data, cached_data)
              /\ pc = "writing" => PointsOf(data_points, fetched.msparking_data)

\* Inside the window, nothing cached: the response is in flight to the sink
\* and its positive reading is cached.
C9_Witness ==
    /\ using_cache
    /\ cache_at_tick = EmptyMap
    /\ pc = "writing"
    /\ Len(data_points) = 2
    /\ DOMAIN cached_data = {7}

\* C10: for every local hour and minute the window predicate is true exactly
\* from 23:50 up to, but not including, 00:20; (23,49) and (0,20) are
\* outside, (23,50) and (0,19) inside.
C10_WindowIsHalfOpen ==
    Started =>
        /\ hour \in 0..23 /\ minute \in 0..59
        /\ using_cache = (60 * hour + minute >= 23 * 60 + 50 \/ 60 * hour + minute < 20)
        /\ (hour = 23 /\ minute = 49) => ~using_cache
        /\ (hour = 23 /\ minute = 50) => using_cache
        /\ (hour = 0 /\ minute = 19) => using_cache
        /\ (hour = 0 /\ minute = 20) => ~using_cache

\* The window has been evaluated at 00:19 local.
C10_Witness ==
    /\ Started
    /\ hour = 0 /\ minute = 19
    /\ using_cache

\* The readings a snapshot of the cache yields, whatever the order.
Snapshots == {{order[i] : i \in 1..Len(order)} : order \in ValueOrders(cached_data)}

\* C11: whatever readings the validated fetches have applied, the snapshot
\* of the cache holds exactly the area codes seen with free_spaces > 0, each
\* with the positive reading applied last, and the cached-data branch maps
\* exactly those to points.
C11_CacheRoundTrip ==
    /\ cached_data = seen_positive
    /\ Snapshots = {{seen_positive[a] : a \in DOMAIN seen_positive}}
    /\ \A order \in ValueOrders(cached_data) :
          Len(order) = Cardinality(DOMAIN seen_positive)
    /\ pc = "writing_cached" =>
          {<<data_points[i].area_code, data_points[i].free_spaces>> :
              i \in 1..Len(data_points)}
          = {<<to_string(a), seen_positive[a].area_free_space_num>> :
              a \in DOMAIN seen_positive}

\* One response carried area 12 twice, 3 then 5, after an earlier response
\* had cached area 2: the snapshot holds 2 and 12 -> 5.
C11_Witness ==
    /\ Validated
    /\ fetched.msparking_data = <<[area_code |-> 12, area_free_space_num |-> 3],
                                  [area_code |-> 12, area_free_space_num |-> 5]>>
    /\ DOMAIN cache_at_tick = {2}
    /\ DOMAIN cached_data = {2, 12}
    /\ cached_data[12].area_free_space_num = 5

PointSet(points) == {points[i] : i \in 1..Len(points)}
\* A point without its timestamp: measurement, tags and field.
Untimed(p) == [measurement |-> p.measurement, area_code |-> p.area_code,
               location |-> p.location, free_spaces |-> p.free_spaces]
\* The cached-data branch runs for the second tick in a row.
FallbackRepeated == pc = "writing_cached" /\ prev_cached_points # <<>>

\* C12 as stated: two consecutive runs of the cached-data branch, the cache
\* unchanged between them, hand identical point sets to the sink.
C12_IdenticalPointSets ==
    FallbackRepeated => PointSet(data_points) = PointSet(prev_cached_points)

\* C12, amended: two consecutive runs of the cached-data branch hand the sink
\* point sets equal in measurement, tags and field; the timestamps are the
\* clock reads of each run.
C12_SamePointsUpToTimestamp ==
    FallbackRepeated =>
        /\ cached_data = cache_at_tick
        /\ Len(data_points) = Len(prev_cached_points)
        /\ {Untimed(p) : p \in PointSet(data_points)}
           = {Untimed(p) : p \in PointSet(prev_cached_points)}

\* The branch ran twice on a cache of two areas and stamped the two batches
\* differently.
C12_Witness ==
    /\ FallbackRepeated
    /\ DOMAIN cached_data = {2, 12}
    /\ \A i \in 1..Len(prev_cached_points) : prev_cached_points[i].timestamp = 0
    /\ \A i \in 1..Len(data_points) : data_points[i].timestamp = 1

DigitValue(c) == CASE c = "0" -> 0 [] c = "1" -> 1 [] c = "2" -> 2 [] c = "3" -> 3
                   [] c = "4" -> 4 [] c = "5" -> 5 [] c = "6" -> 6 [] c = "7" -> 7
                   [] c = "8" -> 8 [] c = "9" -> 9
RECURSIVE Unsigned(_)
Unsigned(str) ==
    IF Len(str) = 1 THEN DigitValue(str[1])
    ELSE 10 * Unsigned(SubSeq(str, 1, Len(str) - 1)) + DigitValue(str[Len(str)])
\* The integer a decimal string reads as.
FromString(str) == IF str[1] = "-" THEN 0 - Unsigned(Tail(str)) ELSE Unsigned(str)

\* C14: the point of a reading has measurement parking_spaces, tag area_code
\* the decimal string of the area code, field free_spaces the reading's
\* free_spaces, and tag location SIP-B25-B26 for area code 12, ZHONGMENG for
\* area code 2 and Unknown for every other area code.
C14_PointOfReading ==
    pc = "writing" =>
        /\ Len(data_points) = Len(fetched.msparking_data)
        /\ \A i \in 1..Len(data_points) :
              LET p == data_points[i]
                  r == fetched.msparking_data[i]
              IN  /\ p.measurement = "parking_spaces"
                  /\ FromString(p.area_code) = r.area_code
                  /\ p.area_code[1] = "0" => Len(p.area_code) = 1
                  /\ r.area_code = 12 => p.area_code = <<"1", "2">>
                  /\ r.area_code = -3 => p.area_code = <<"-", "3">>
                  /\ p.free_spaces = r.area_free_space_num
                  /\ r.area_code = 12 => p.location = "SIP-B25-B26"
                  /\ r.area_code = 2 => p.location = "ZHONGMENG"
                  /\ r.area_code \notin {2, 12} => p.location = "Unknown"

\* The point of a reading of area code 120 with no free space.
C14_Witness ==
    /\ pc = "writing"
    /\ fetched.msparking_data = <<[area_code |-> 120, area_free_space_num |-> 0]>>
    /\ data_points[1].area_code = <<"1", "2", "0">>
    /\ data_points[1].location = "Unknown"
    /\ data_points[1].free_spaces = 0

\* C15: the cache changes only in the step that takes in a validated
\* response; a cycle of the cached-data branch leaves it as it was at the
\* tick, whether its write succeeds or fails; the points of a fetch cycle are
\* the fetched readings, whatever the cache holds.
C15_CacheFrame ==
    /\ [][cached_data' # cached_data =>
             (pc = "fetching" /\ pc' = "writing" /\ Validated')]_vars
    /\ []((fetches = 0 /\ writes = 1) => cached_data = cache_at_tick)
    /\ [](pc = "writing" => PointsOf(data_points, fetched.msparking_data))

\* Area 12 is cached with 3 free spaces, the response reports it with none:
\* the point in flight carries 0 and the cache still holds 3.
C15_Witness ==
    /\ pc = "writing"
    /\ 12 \in DOMAIN cache_at_tick
    /\ cache_at_tick[12].area_free_space_num = 3
    /\ fetched.msparking_data = <<[area_code |-> 12, area_free_space_num |-> 0]>>
    /\ data_points[1].free_spaces = 0
    /\ cached_data[12].area_free_space_num = 3

InFlight == pc \in {"fetching", "writing", "writing_cached"}

\* C16: one cycle at a time.  A cycle begins only from the tick await, with
\* no fetch and no write in flight; the cycle in progress is the only one
\* that has issued a fetch or a write; and between a cycle's tick and its
\* cache update no other step touches the cache.
C16_CyclesSerialized ==
    /\ [][pc' \in {"fetching", "writing_cached"} =>
             (pc = "waiting" /\ write_result # "pending")]_vars
    /\ [][cache_at_tick' # cache_at_tick => ~InFlight]_vars
    /\ [](fetches <= 1 /\ writes <= 1)
    /\ []((write_result = "pending") = (pc \in {"writing", "writing_cached"}))
    /\ [](pc = "fetching" => (fetched = NoFetch /\ writes = 0
                              /\ cached_data = cache_at_tick))
    /\ [](pc = "waiting" => (fetches + writes <= 2 /\ write_result # "pending"))

\* A later cycle has its write in flight: the cycles before it have ended.
C16_Witness ==
    /\ pc = "writing"
    /\ write_result = "pending"
    /\ DOMAIN cache_at_tick = {2, 7, 12}
    /\ fetches = 1 /\ writes = 1

Ended == pc \in {"failed", "panicked"}

\* C17: a process whose configuration fails at startup ends there: it has
\* run no tick, no fetch, no cache update and no write, and takes no further
\* step.  The process ends in no other way: only the step out of the
\* configuration load ends it, and every other state has a step to take.
C17_OnlyConfigurationIsFatal ==
    /\ [](Ended =>
            /\ fetches = 0 /\ writes = 0
            /\ fetched = NoFetch /\ write_result = "none" /\ data_points = <<>>
            /\ cached_data = EmptyMap /\ seen_positive = EmptyMap
            /\ ~ENABLED MainNext)
    /\ [][Ended' => pc = "load_config"]_vars
    /\ [](~Ended => ENABLED MainNext)

\* The configuration did not load: the process has exited before any cycle.
C17_Witness ==
    /\ pc = "failed"
    /\ fetches = 0 /\ writes = 0
    /\ cached_data = EmptyMap

WriteInFlight == pc \in {"writing", "writing_cached"}

\* C18: no write is dispatched with an empty batch, and a cycle issues at
\* most one fetch and at most one write.  The write of the fallback branch
\* is dispatched without a fetch, from a cache that is not empty, with one
\* point per cached entry; the write of the fetch branch is dispatched after
\* a validated response, with one point per reading of that response.
C18_NoEmptyBatch ==
    /\ fetches <= 1 /\ writes <= 1
    /\ WriteInFlight => (data_points # <<>> /\ writes = 1)
    /\ writes = 1 => (WriteInFlight \/ write_result \in {"ok", "err"})
    /\ pc = "writing_cached" =>
          /\ fetches = 0
          /\ DOMAIN cached_data # {}
          /\ Len(data_points) = Cardinality(DOMAIN cached_data)
    /\ pc = "writing" =>
          /\ fetches = 1
          /\ Validated
          /\ Len(data_points) = Len(fetched.msparking_data)
    /\ (writes = 1 /\ fetches = 0) => (using_cache /\ DOMAIN cached_data # {})
    /\ (writes = 1 /\ fetches = 1) => Validated

\* The fallback branch has dispatched its write of a single cached entry.
C18_Witness ==
    /\ pc = "writing_cached"
    /\ Len(data_points) = 1
    /\ Cardinality(DOMAIN cached_data) = 1
    /\ writes = 1 /\ fetches = 0

FetchLeftNothing == FetchFailed \/ Rejected \/ EmptyPayload

\* C19: the cache never loses an entry.  No step removes an area code from
\* the cache, so a cache that is not empty stays so; a fetch that failed, was
\* rejected or carried no reading leaves the cache as it was; and every key
\* is the area code of the reading stored under it.
C19_CacheOnlyGrows ==
    /\ [][DOMAIN cached_data \subseteq DOMAIN cached_data']_vars
    /\ [][DOMAIN cached_data # {} => DOMAIN cached_data' # {}]_vars
    /\ [][(pc = "fetching" /\ FetchLeftNothing') =>
             cached_data' = cached_data]_vars
    /\ [](\A a \in DOMAIN cached_data : cached_data[a].area_code = a)
    /\ [](DOMAIN cache_at_tick \subseteq DOMAIN cached_data)

\* A fetch has added a second area to a cache that already held one.
C19_Witness ==
    /\ pc = "writing"
    /\ Cardinality(DOMAIN cache_at_tick) = 1
    /\ Cardinality(DOMAIN cached_data) = 2
    /\ DOMAIN cache_at_tick \subseteq DOMAIN cached_data

\* points holds a point of area code a with v free spaces.
Served(points, a, v) ==
    \E i \in 1..Len(points) :
        /\ points[i].area_code = to_string(a)
        /\ points[i].free_spaces = v

\* The area codes cached before the cycle that has just ended for which its
\* validated response brought no positive reading: reported with a value of
\* zero or less, or not reported.
Stale ==
    IF pc = "waiting" /\ Validated
    THEN {a \in DOMAIN cache_at_tick : PositiveAt(fetched.msparking_data, a) = {}}
    ELSE {}

\* The stale area codes the response reported.
ReportedStale ==
    {a \in Stale : \E i \in 1..Len(fetched.msparking_data) :
                       fetched.msparking_data[i].area_code = a}

\* C20: every point of a fallback write has free_spaces > 0 and carries the
\* value of a cache entry, every entry being served.  After a validated
\* fetch that brought no positive reading for an area cached before it
\* (the area reported with zero or less, or not reported), the entry is the
\* older one, and a tick inside the window writes that older value.
C20_FallbackServesOlderValue ==
    /\ [](pc = "writing_cached" =>
            /\ \A i \in 1..Len(data_points) :
                  /\ data_points[i].free_spaces > 0
                  /\ \E a \in DOMAIN cached_data :
                        /\ data_points[i].area_code = to_string(a)
                        /\ data_points[i].free_spaces =
                               cached_data[a].area_free_space_num
            /\ \A a \in DOMAIN cached_data :
                  Served(data_points, a, cached_data[a].area_free_space_num))
    /\ [](\A a \in Stale :
            /\ a \in DOMAIN cached_data
            /\ cached_data[a] = cache_at_tick[a]
            /\ \A i \in 1..Len(fetched.msparking_data) :
                  fetched.msparking_data[i].area_code = a =>
                      fetched.msparking_data[i].area_free_space_num
                          < cached_data[a].area_free_space_num)
    /\ [][\A a \in Stale :
            using_cache' =>
               /\ pc' = "writing_cached"
               /\ Served(data_points', a, cache_at_tick[a].area_free_space_num)
               /\ cache_at_tick[a].area_free_space_num > 0]_vars

\* The latest fetch was validated and reported no space left for an area
\* cached with a positive value, another cached area went unreported, and
\* the tick inside the window is about to write the cache.
C20_Witness ==
    /\ pc = "waiting"
    /\ Validated
    /\ ReportedStale # {}
    /\ Stale \ ReportedStale # {}
    /\ ENABLED (Tick /\ pc' = "writing_cached")

====
